---- MODULE Spec2Model ----
(***************************************************************************)
(* Model of github.com/yanun0323/cache (cache.go): a generic in-memory     *)
(* cache with per-item TTL, a query (loader) function that fills misses,   *)
(* and a background goroutine that deletes expired items.                  *)
(*                                                                         *)
(* Goroutines calling Get/Set are the elements of Procs; the goroutine     *)
(* started by New is the janitor.  Every statement of cache.go that reads  *)
(* or writes shared memory, or takes a lock, is one step.                  *)
(***************************************************************************)
EXTENDS Integers, Sequences, FiniteSets, TLC

\* ---------------------------------------------------------------- bounds
MaxTime == 3        \* the clock runs from 1 to MaxTime
MaxVal == 1         \* values of V are 0 (the zero value) .. MaxVal
MaxCalls == 2       \* calls of Get and Set made in one run
IntBits == 4        \* width of the signed integers standing for int64

Procs == {"g1", "g2"}          \* goroutines calling Get and Set
Keys == {"a", "b"}             \* values of K
\* goroutines are interchangeable, and so are keys: the first call of a run is
\* taken to be FirstProc's, on FirstKey
FirstProc == "g1"
FirstKey == "a"
Values == 0..MaxVal
TTLs == {-1, 0, 2}             \* explicit ttl arguments (nanoseconds)
DefaultTTLs == {2}             \* defaultExpiration handed to New
TTLArgs == {<< >>} \cup {<<t>> : t \in TTLs}     \* the variadic ttl ...time.Duration

NoItem == 0                               \* the nil *cacheItem
Items == 1..(Cardinality(Keys) + Cardinality(Procs))   \* addresses of cacheItem objects
Free == "free"                            \* an unlocked mutex
Janitor == "janitor"                      \* the goroutine started by New
Nil == "nil"                              \* the nil error
Error == "error"                          \* a non-nil error returned by query
MinInt == -(2 ^ (IntBits - 1))            \* math.MinInt64
MaxInt == 2 ^ (IntBits - 1) - 1           \* math.MaxInt64
MaxDuration == MaxInt                     \* the largest time.Duration
Torn == -1                                \* a V that mixes the words of two written values

VARIABLES
    clock,        \* time.Now().UnixNano()
    defaultTTL,   \* cache.defaultTTL
    mu,           \* cache.mu: Free or the goroutine holding it
    items,        \* cache.items: key -> address of its cacheItem, NoItem if absent
    expiration,   \* cacheItem.expiration, by address
    val,          \* cacheItem.val, by address
    itemMu,       \* cacheItem.mu, by address: Free or the goroutine holding it
    th,           \* per goroutine: program counter, arguments, locals, results
    jpc,          \* the janitor: "wait" for the ticker or "scan" inside cleanup
    jkeys,        \* keys the range loop of cleanup has still to visit
    calls,        \* number of calls of Get and Set made so far
    gh,           \* history of each goroutine's current call
    lastEv        \* history: the last event of each key: a write or a failed load that
                  \* has returned, or the removal of a written item by cleanup

vars == <<clock, defaultTTL, mu, items, expiration, val, itemMu, th, jpc, jkeys, calls,
          gh, lastEv>>
cacheVars == <<mu, items, expiration, val, itemMu>>
histVars == <<gh, lastEv>>

\* ------------------------------------------------------- pure functions
\* func now() int64
now == clock

\* mutant of isZeroTTL: the guard of Set never fires
isZeroTTL_never(ttl) == FALSE

\* func isZeroTTL(ttl ...time.Duration) bool
isZeroTTL(ttl) == Len(ttl) # 0 /\ ttl[1] = 0

\* func firstOrDefault[T any](v T, slice ...T) T
firstOrDefault(v, slice) == IF Len(slice) # 0 THEN slice[1] ELSE v

\* mutant of isFresh: an item is still served at the instant it expires
isFresh_inclusive(e, t) == e >= t

\* the expiry test of Get, on the fast path and again under the item's lock:
\* item.expiration.Load() > nowTime
isFresh(e, t) == e > t

\* mutant of isExpired: the comparison of cleanup is reversed
isExpired_reversed(e, t) == e > t

\* mutant of isExpired: an item is deleted at the instant it expires
isExpired_inclusive(e, t) == e <= t

\* the expiry test of cleanup: item.expiration.Load() < now()
isExpired(e, t) == e < t

\* int64 addition wraps around
wrap(x) == ((x - MinInt) % (2 ^ IntBits)) + MinInt

\* now() + ttl
expireAt(t, ttl) == wrap(t + ttl)

\* mutant of errValue: a zero V is returned next to the error
errValue_zero(v) == 0

\* the value getAndUpdateItemFromQuery returns next to the error of query
errValue(v) == v

\* the ttl int64 handed to updateItem and getAndUpdateItemFromQuery:
\* firstOrDefault(c.defaultTTL, ttl...).Nanoseconds()
ttlOf(p) == firstOrDefault(defaultTTL, th[p].args)

\* ------------------------------------------------------------ the heap
Held == {th[p].item : p \in Procs} \ {NoItem}
Mapped == {items[k] : k \in Keys} \ {NoItem}

\* &cacheItem[V]{}: a fresh address (the smallest unreferenced one)
NewItem == CHOOSE i \in Items \ (Held \cup Mapped) :
               \A j \in Items \ (Held \cup Mapped) : i <= j

\* An object no pointer reaches is garbage: its address reads as a zero cacheItem
\* again (expiration 0, val 0).
Collect(f, live) == [i \in Items |-> IF i \in live THEN f[i] ELSE 0]

\* the heap once goroutine p has dropped its pointer
LiveWithout(p) == Mapped \cup ({th[q].item : q \in Procs \ {p}} \ {NoItem})

\* ------------------------------------------------------------- history
NoEv == [kind |-> "none", val |-> 0, exp |-> 0, ttl |-> 0]
\* loaded: the call has called query; dirty: somebody else wrote the key during
\* the call; snap: the key's last event when the call started; peer: the value a
\* concurrent Get loaded; seen: item.val when the fast path loaded the expiration;
\* changed: the call's write of item.val replaced a different value; raced: a
\* write of item.val by another goroutine is not ordered before the fast path's
\* read of it; tear: that write replaced a different value
NoGh == [loaded |-> FALSE, dirty |-> FALSE, snap |-> NoEv, peer |-> -2, seen |-> 0,
         changed |-> FALSE, raced |-> FALSE, tear |-> FALSE]
Idle == [pc |-> "done", op |-> "none", key |-> "a", args |-> << >>, value |-> 0,
         item |-> NoItem, nowTime |-> 0, rval |-> 0, rerr |-> Nil]

InFlight(p) == th[p].pc # "done"
Captured(p) == th[p].nowTime > 0

\* Goroutine w, inside Set, writes item.val or item.expiration for key k: every
\* other call in flight on k has seen a concurrent write.
DisturbSet(w, k) == [q \in Procs |->
    IF q # w /\ InFlight(q) /\ th[q].key = k
    THEN [gh[q] EXCEPT !.dirty = TRUE, !.peer = -2] ELSE gh[q]]

\* Goroutine w writes v to item.val under item.mu.  A goroutine that is on the fast
\* path of Get between its load of the expiration and its read of item.val holds
\* no lock and has synchronised with an earlier store only: its read races with
\* this write.
RaceWrite(g, w, v) == [q \in Procs |->
    IF q = w THEN [g[q] EXCEPT !.changed = (val[th[w].item] # v)]
    ELSE IF th[q].item = th[w].item /\ th[q].pc = "getFastRet"
         THEN [g[q] EXCEPT !.raced = TRUE, !.tear = @ \/ val[th[w].item] # v]
         ELSE g[q]]

\* writers that have written item.val of item i and not yet stored its expiration
MidUpdate(p, i) == {q \in Procs \ {p} : th[q].item = i
                                        /\ th[q].pc \in {"setStoreExp", "getStoreExp"}}

\* Goroutine w, inside Get, stores the loaded value v: every other call in flight
\* on k has seen a concurrent write, and a Get that found the item stale has a
\* peer that loaded v (if the peer stores it with a positive ttl).
DisturbGet(w, k, v) == [q \in Procs |->
    IF q # w /\ InFlight(q) /\ th[q].key = k
    THEN [gh[q] EXCEPT !.dirty = TRUE,
                       !.peer = IF gh[q].peer = -2 \/ ttlOf(w) <= 0 THEN -2 ELSE v]
    ELSE gh[q]]

TypeOK ==
    /\ clock \in 1..MaxTime
    /\ defaultTTL \in DefaultTTLs \cup {MaxDuration}
    /\ mu \in Procs \cup {Free, Janitor}
    /\ items \in [Keys -> Items \cup {NoItem}]
    /\ val \in [Items -> Values]
    /\ itemMu \in [Items -> Procs \cup {Free}]
    /\ jpc \in {"wait", "scan"}
    /\ jkeys \subseteq Keys
    /\ calls \in 0..MaxCalls

Init ==
    /\ clock = 1
    /\ defaultTTL \in DefaultTTLs
    /\ mu = Free
    /\ items = [k \in Keys |-> NoItem]
    /\ expiration = [i \in Items |-> 0]
    /\ val = [i \in Items |-> 0]
    /\ itemMu = [i \in Items |-> Free]
    /\ th = [p \in Procs |-> Idle]
    /\ jpc = "wait"
    /\ jkeys = {}
    /\ calls = 0
    /\ gh = [p \in Procs |-> NoGh]
    /\ lastEv = [k \in Keys |-> NoEv]

\* ------------------------------------------------------------ the clock
Tick ==
    /\ clock < MaxTime
    /\ clock' = clock + 1
    /\ UNCHANGED <<defaultTTL, cacheVars, th, jpc, jkeys, calls, histVars>>

\* ------------------------------------------------------------- getItem
\* func (c *cache[K, V]) getItem(key K) *cacheItem[V]: c.mu.Lock()
getItemLock(p) ==
    /\ th[p].pc = "getItem"
    /\ mu = Free
    /\ mu' = p
    /\ th' = [th EXCEPT ![p].pc = "getItemBody"]
    /\ UNCHANGED <<clock, defaultTTL, items, expiration, val, itemMu, jpc, jkeys, calls, histVars>>

\* mutant of getItem: the deferred c.mu.Unlock() is missing
getItem_keepLock(p) ==
    /\ th[p].pc = "getItemBody"
    /\ mu = p
    /\ LET k == th[p].key
           ok == items[k] # NoItem
           it == IF ok THEN items[k] ELSE NewItem
       IN /\ items' = [items EXCEPT ![k] = it]
          /\ th' = [th EXCEPT ![p].item = it,
                              ![p].pc = IF th[p].op = "Get" THEN "getNow" ELSE "setLock"]
    /\ UNCHANGED <<clock, defaultTTL, mu, expiration, val, itemMu, jpc, jkeys, calls, histVars>>

\* the lookup, the insertion of a zero item when the key is absent, and the
\* deferred c.mu.Unlock()
getItem(p) ==
    /\ th[p].pc = "getItemBody"
    /\ mu = p
    /\ LET k == th[p].key
           ok == items[k] # NoItem
           it == IF ok THEN items[k] ELSE NewItem
       IN /\ items' = [items EXCEPT ![k] = it]
          /\ th' = [th EXCEPT ![p].item = it,
                              ![p].pc = IF th[p].op = "Get" THEN "getNow" ELSE "setLock"]
    /\ mu' = Free
    /\ UNCHANGED <<clock, defaultTTL, expiration, val, itemMu, jpc, jkeys, calls, histVars>>

\* ----------------------------------------------------------------- Get
\* func (c *cache[K, V]) Get(key K, ttl ...time.Duration) (V, error), called with
\* key k and ttl t
Get(p, k, t) ==
    /\ th[p].pc = "done"
    /\ calls < MaxCalls
    /\ calls = 0 => p = FirstProc /\ k = FirstKey
    /\ calls' = calls + 1
    /\ th' = [th EXCEPT ![p] = [Idle EXCEPT !.pc = "getItem", !.op = "Get", !.key = k,
                                            !.args = t]]
    /\ gh' = [gh EXCEPT ![p] = [NoGh EXCEPT !.snap = lastEv[k]]]
    /\ UNCHANGED <<clock, defaultTTL, cacheVars, jpc, jkeys, lastEv>>

\* getAndUpdateItemFromQuery: nowTime := now()
getNow(p) ==
    /\ th[p].pc = "getNow"
    /\ th' = [th EXCEPT ![p].nowTime = now, ![p].pc = "getFast"]
    /\ gh' = [gh EXCEPT ![p].peer = IF expiration[th[p].item] > now THEN -2 ELSE -1]
    /\ UNCHANGED <<clock, defaultTTL, cacheVars, jpc, jkeys, calls, lastEv>>

\* if item.expiration.Load() > nowTime  (no lock held)
getFast(p) ==
    /\ th[p].pc = "getFast"
    /\ th' = [th EXCEPT ![p].pc = IF isFresh(expiration[th[p].item], th[p].nowTime)
                                  THEN "getFastRet" ELSE "getLock"]
    /\ gh' = IF isFresh(expiration[th[p].item], th[p].nowTime)
             THEN [gh EXCEPT ![p].seen = val[th[p].item],
                             ![p].raced = MidUpdate(p, th[p].item) # {},
                             ![p].tear = \E q \in MidUpdate(p, th[p].item) : gh[q].changed]
             ELSE gh
    /\ UNCHANGED <<clock, defaultTTL, cacheVars, jpc, jkeys, calls, lastEv>>

\* what the read of item.val can yield: the value in memory, or, when the read
\* races with a write that replaces a different value, a mix of the two
readVal(p) == {val[th[p].item]} \cup (IF gh[p].tear THEN {Torn} ELSE {})

\* return item.val, nil  (the read of val, no lock held)
getFastRet(p) ==
    /\ th[p].pc = "getFastRet"
    /\ \E v \in readVal(p) : th' = [th EXCEPT ![p].rval = v, ![p].pc = "ret"]
    /\ UNCHANGED <<clock, defaultTTL, cacheVars, jpc, jkeys, calls, histVars>>

\* mutant of getLock: the second check reads the clock again
getLock_now(p) ==
    /\ th[p].pc = "getLock"
    /\ itemMu[th[p].item] = Free
    /\ itemMu' = [itemMu EXCEPT ![th[p].item] = p]
    /\ IF isFresh(expiration[th[p].item], now)
       THEN /\ th' = [th EXCEPT ![p].rval = val[th[p].item], ![p].pc = "ret"]
            /\ gh' = gh
       ELSE /\ th' = [th EXCEPT ![p].pc = "query"]
            /\ gh' = [gh EXCEPT ![p].loaded = TRUE]
    /\ UNCHANGED <<clock, defaultTTL, mu, items, expiration, val, jpc, jkeys, calls, lastEv>>

\* item.mu.Lock() and the second check, under the lock: return item.val, nil when
\* fresh, otherwise call query(key)
getLock(p) ==
    /\ th[p].pc = "getLock"
    /\ itemMu[th[p].item] = Free
    /\ itemMu' = [itemMu EXCEPT ![th[p].item] = p]
    /\ IF isFresh(expiration[th[p].item], th[p].nowTime)
       THEN /\ th' = [th EXCEPT ![p].rval = val[th[p].item], ![p].pc = "ret"]
            /\ gh' = gh
       ELSE /\ th' = [th EXCEPT ![p].pc = "query"]
            /\ gh' = [gh EXCEPT ![p].loaded = TRUE]
    /\ UNCHANGED <<clock, defaultTTL, mu, items, expiration, val, jpc, jkeys, calls, lastEv>>

\* mutant of queryFail: the failure is cached, the expiration is pushed forward
queryFail_cached(p) ==
    /\ th[p].pc = "query"
    /\ expiration' = [expiration EXCEPT ![th[p].item] = expireAt(now, ttlOf(p))]
    /\ th' = [th EXCEPT ![p].rval = val[th[p].item], ![p].rerr = Error, ![p].pc = "ret"]
    /\ UNCHANGED <<clock, defaultTTL, mu, items, val, itemMu, jpc, jkeys, calls, histVars>>

\* val, err := query(key) returns an error: return item.val, err
queryFail(p) ==
    /\ th[p].pc = "query"
    /\ th' = [th EXCEPT ![p].rval = errValue(val[th[p].item]), ![p].rerr = Error,
                        ![p].pc = "ret"]
    /\ UNCHANGED <<clock, defaultTTL, cacheVars, jpc, jkeys, calls, histVars>>

\* val, err := query(key) returns the value v with a nil error; item.val = val
queryOk(p, v) ==
    /\ th[p].pc = "query"
    /\ LET k == th[p].key
       IN /\ val' = [val EXCEPT ![th[p].item] = v]
          /\ gh' = RaceWrite(DisturbGet(p, k, v), p, v)
          /\ lastEv' = [lastEv EXCEPT ![k] = NoEv]
    /\ th' = [th EXCEPT ![p].rval = v, ![p].pc = "getStoreExp"]
    /\ UNCHANGED <<clock, defaultTTL, mu, items, expiration, itemMu, jpc, jkeys, calls>>

\* item.expiration.Store(now() + ttl); return val, nil
getStoreExp(p) ==
    /\ th[p].pc = "getStoreExp"
    /\ expiration' = [expiration EXCEPT ![th[p].item] = expireAt(now, ttlOf(p))]
    /\ gh' = DisturbGet(p, th[p].key, th[p].rval)
    /\ th' = [th EXCEPT ![p].pc = "ret"]
    /\ UNCHANGED <<clock, defaultTTL, mu, items, val, itemMu, jpc, jkeys, calls, lastEv>>

\* ----------------------------------------------------------------- Set
\* func (c *cache[K, V]) Set(key K, value V, ttl ...time.Duration), called with
\* key k, value v and ttl t:
\* if !isZeroTTL(ttl...) { updateItem(key, value, c.getItem(key), ...) }
Set(p, k, v, t) ==
    /\ th[p].pc = "done"
    /\ calls < MaxCalls
    /\ calls = 0 => p = FirstProc /\ k = FirstKey
    /\ calls' = calls + 1
    /\ th' = [th EXCEPT ![p] = [Idle EXCEPT !.pc = IF isZeroTTL(t) THEN "ret" ELSE "getItem",
                                            !.op = "Set", !.key = k, !.value = v, !.args = t]]
    /\ gh' = [gh EXCEPT ![p] = NoGh]
    /\ UNCHANGED <<clock, defaultTTL, cacheVars, jpc, jkeys, lastEv>>

\* updateItem: item.mu.Lock(); item.val = val
setLock(p) ==
    /\ th[p].pc = "setLock"
    /\ itemMu[th[p].item] = Free
    /\ itemMu' = [itemMu EXCEPT ![th[p].item] = p]
    /\ val' = [val EXCEPT ![th[p].item] = th[p].value]
    /\ gh' = RaceWrite(DisturbSet(p, th[p].key), p, th[p].value)
    /\ lastEv' = [lastEv EXCEPT ![th[p].key] = NoEv]
    /\ th' = [th EXCEPT ![p].pc = "setStoreExp"]
    /\ UNCHANGED <<clock, defaultTTL, mu, items, expiration, jpc, jkeys, calls>>

\* updateItem: item.expiration.Store(now() + ttl)
setStoreExp(p) ==
    /\ th[p].pc = "setStoreExp"
    /\ expiration' = [expiration EXCEPT ![th[p].item] = expireAt(now, ttlOf(p))]
    /\ gh' = DisturbSet(p, th[p].key)
    /\ th' = [th EXCEPT ![p].pc = "ret"]
    /\ UNCHANGED <<clock, defaultTTL, mu, items, val, itemMu, jpc, jkeys, calls, lastEv>>

\* ------------------------------------------------------------ returning
\* The results are computed; the deferred item.mu.Unlock() runs if the lock was
\* taken, and the call returns to its caller, dropping its pointer to the item.
Wrote(p) == \/ th[p].op = "Set" /\ th[p].item # NoItem
            \/ th[p].op = "Get" /\ gh[p].loaded /\ th[p].rerr = Nil
Failed(p) == th[p].op = "Get" /\ th[p].rerr = Error

\* mutant of ret: the deferred item.mu.Unlock() is missing
ret_noUnlock(p) ==
    /\ th[p].pc = "ret"
    /\ LET it == th[p].item
           k == th[p].key
       IN /\ expiration' = Collect(expiration, LiveWithout(p))
          /\ val' = Collect(val, LiveWithout(p))
          /\ lastEv' = CASE Wrote(p) /\ ~gh[p].dirty ->
                              [lastEv EXCEPT ![k] = [kind |-> th[p].op, val |-> val[it],
                                                     exp |-> expiration[it], ttl |-> ttlOf(p)]]
                         [] Wrote(p) /\ gh[p].dirty -> [lastEv EXCEPT ![k] = NoEv]
                         [] Failed(p) /\ ~gh[p].dirty ->
                              [lastEv EXCEPT ![k] = [NoEv EXCEPT !.kind = "Fail"]]
                         [] OTHER -> lastEv
    /\ th' = [th EXCEPT ![p] = Idle]
    /\ gh' = [gh EXCEPT ![p] = NoGh]
    /\ UNCHANGED <<clock, defaultTTL, mu, items, itemMu, jpc, jkeys, calls>>

ret(p) ==
    /\ th[p].pc = "ret"
    /\ LET it == th[p].item
           k == th[p].key
       IN /\ itemMu' = IF it # NoItem /\ itemMu[it] = p
                       THEN [itemMu EXCEPT ![it] = Free] ELSE itemMu
          /\ expiration' = Collect(expiration, LiveWithout(p))
          /\ val' = Collect(val, LiveWithout(p))
          /\ lastEv' = CASE Wrote(p) /\ ~gh[p].dirty ->
                              [lastEv EXCEPT ![k] = [kind |-> th[p].op, val |-> val[it],
                                                     exp |-> expiration[it], ttl |-> ttlOf(p)]]
                         [] Wrote(p) /\ gh[p].dirty -> [lastEv EXCEPT ![k] = NoEv]
                         [] Failed(p) /\ ~gh[p].dirty ->
                              [lastEv EXCEPT ![k] = [NoEv EXCEPT !.kind = "Fail"]]
                         [] OTHER -> lastEv
    /\ th' = [th EXCEPT ![p] = Idle]
    /\ gh' = [gh EXCEPT ![p] = NoGh]
    /\ UNCHANGED <<clock, defaultTTL, mu, items, jpc, jkeys, calls>>

\* ------------------------------------------------------------- janitor
\* for range ticker.C { c.cleanup() }: a tick arrives, cleanup takes c.mu and
\* starts ranging over c.items (over an empty map it unlocks and returns at once)
cleanupLock ==
    /\ jpc = "wait"
    /\ mu = Free
    /\ LET present == {k \in Keys : items[k] # NoItem}
       IN /\ jkeys' = present
          /\ mu' = IF present = {} THEN Free ELSE Janitor
          /\ jpc' = IF present = {} THEN "wait" ELSE "scan"
    /\ UNCHANGED <<clock, defaultTTL, items, expiration, val, itemMu, th, calls, histVars>>

\* one iteration: if item.expiration.Load() < now() { delete(c.items, key) };
\* after the last one, the deferred c.mu.Unlock()
cleanup(k) ==
    /\ jpc = "scan"
    /\ mu = Janitor
    /\ k \in jkeys
    /\ jkeys' = jkeys \ {k}
    /\ IF isExpired(expiration[items[k]], now)
       THEN /\ items' = [items EXCEPT ![k] = NoItem]
            /\ expiration' = Collect(expiration, (Mapped \ {items[k]}) \cup Held)
            /\ val' = Collect(val, (Mapped \ {items[k]}) \cup Held)
            /\ lastEv' = IF expiration[items[k]] > 0
                         THEN [lastEv EXCEPT ![k] = [NoEv EXCEPT !.kind = "Reaped"]]
                         ELSE lastEv
       ELSE UNCHANGED <<items, expiration, val, lastEv>>
    /\ mu' = IF jkeys = {k} THEN Free ELSE Janitor
    /\ jpc' = IF jkeys = {k} THEN "wait" ELSE "scan"
    /\ UNCHANGED <<clock, defaultTTL, itemMu, th, calls, gh>>

\* ---------------------------------------------------------------- Next
Next ==
    \/ Tick
    \/ \E p \in Procs, k \in Keys, t \in TTLArgs : Get(p, k, t)
    \/ \E p \in Procs, k \in Keys, v \in Values, t \in TTLArgs : Set(p, k, v, t)
    \/ \E p \in Procs : getItemLock(p)
    \/ \E p \in Procs : getItem(p)
    \/ \E p \in Procs : getNow(p)
    \/ \E p \in Procs : getFast(p)
    \/ \E p \in Procs : getFastRet(p)
    \/ \E p \in Procs : getLock(p)
    \/ \E p \in Procs : queryFail(p)
    \/ \E p \in Procs, v \in Values : queryOk(p, v)
    \/ \E p \in Procs : getStoreExp(p)
    \/ \E p \in Procs : setLock(p)
    \/ \E p \in Procs : setStoreExp(p)
    \/ \E p \in Procs : ret(p)
    \/ cleanupLock
    \/ \E k \in Keys : cleanup(k)

Spec == Init /\ [][Next]_vars

\* A cache in use: FirstKey holds a value that an earlier Set(FirstKey, v), called
\* without ttl at time 1, has written and that is still fresh.
InitWarm ==
    /\ clock = 1
    /\ defaultTTL \in DefaultTTLs
    /\ mu = Free
    /\ items = [k \in Keys |-> IF k = FirstKey THEN 1 ELSE NoItem]
    /\ \E v \in Values :
          /\ val = [i \in Items |-> IF i = 1 THEN v ELSE 0]
          /\ lastEv = [k \in Keys |->
                         IF k = FirstKey
                         THEN [kind |-> "Set", val |-> v, exp |-> expireAt(1, defaultTTL),
                               ttl |-> defaultTTL]
                         ELSE NoEv]
    /\ expiration = [i \in Items |-> IF i = 1 THEN expireAt(1, defaultTTL) ELSE 0]
    /\ itemMu = [i \in Items |-> Free]
    /\ th = [p \in Procs |-> Idle]
    /\ jpc = "wait"
    /\ jkeys = {}
    /\ calls = 0
    /\ gh = [p \in Procs |-> NoGh]

SpecWarm == InitWarm /\ [][Next]_vars

\* A cache made by New(math.MaxInt64, query): entries are meant never to expire.
InitLong ==
    /\ clock = 1
    /\ defaultTTL = MaxDuration
    /\ mu = Free
    /\ items = [k \in Keys |-> NoItem]
    /\ expiration = [i \in Items |-> 0]
    /\ val = [i \in Items |-> 0]
    /\ itemMu = [i \in Items |-> Free]
    /\ th = [p \in Procs |-> Idle]
    /\ jpc = "wait"
    /\ jkeys = {}
    /\ calls = 0
    /\ gh = [p \in Procs |-> NoGh]
    /\ lastEv = [k \in Keys |-> NoEv]

SpecLong == InitLong /\ [][Next]_vars

\* The ticker of the janitor keeps firing and a started cleanup runs to its end;
\* the clock keeps advancing (up to MaxTime).  Callers are under no obligation.
LiveSpec ==
    /\ Spec
    /\ WF_vars(cleanupLock)
    /\ WF_vars(\E k \in Keys : cleanup(k))
    /\ WF_vars(Tick)

\* A cache in use, under a fair scheduler: as long as some goroutine inside Get or
\* Set can take a step again and again, one of them does (the mutexes do not
\* starve a waiter), and a pass of cleanup that has started goes on.  Nothing
\* obliges query to return, the ticker to fire, or anybody to call Get or Set.
step(p) ==
    \/ getItemLock(p) \/ getItem(p) \/ getNow(p) \/ getFast(p) \/ getFastRet(p)
    \/ getLock(p) \/ getStoreExp(p) \/ setLock(p) \/ setStoreExp(p) \/ ret(p)

FairSpec ==
    /\ SpecWarm
    /\ SF_vars(\E p \in Procs : step(p))
    /\ WF_vars(\E k \in Keys : cleanup(k))

\* ============================================================== claims
Gets == {p \in Procs : th[p].op = "Get"}
Loading(k) == {p \in Gets : th[p].key = k /\ th[p].pc = "query"}
Returning(p) == th[p].pc = "ret"
\* a Get that started after the event its snapshot holds had returned, with no
\* write to the key by anyone else since
After(p, kind) == p \in Gets /\ Captured(p) /\ gh[p].snap.kind = kind /\ ~gh[p].dirty
\* the Get was answered from the item: no call of query, no error, the value v
ServedFromCache(p, v) == /\ ~gh[p].loaded
                         /\ Returning(p) => th[p].rerr = Nil /\ th[p].rval = v

\* C1: for every key, at most one call of query (the loader) is in flight at any
\* time, whatever Get, Set and cleanup passes interleave.
C1_OneLoaderInFlight == \A k \in Keys : Cardinality(Loading(k)) <= 1

\* C2: Gets issued concurrently while the key's item is absent or expired load it
\* once: a Get that found the item stale and has a concurrent peer that loaded a
\* value (stored with a positive ttl, no Set in between) does not call query itself
\* and returns the peer's value.
C2_SingleLoadPerWindow ==
    \A p \in Gets : gh[p].peer >= 0 => ServedFromCache(p, gh[p].peer)

\* C3: after Set(K, V, T) with T > 0 has returned, a Get(K) that starts before the
\* written expiry and before any later write returns V with no error and does not
\* call query, whatever cleanup passes ran, also during the Set.
C3_SetSuppressesLoad ==
    \A p \in Procs :
        After(p, "Set") /\ gh[p].snap.ttl > 0 /\ th[p].nowTime < gh[p].snap.exp
            => ServedFromCache(p, gh[p].snap.val)

\* C4: after a Get(K) has stored a loaded value at t0 with ttl T > 0, a Get(K) that
\* starts strictly between t0 and t0 + T returns that value with no error and does
\* not call query, whatever cleanup passes ran.
C4_FreshnessWindow ==
    \A p \in Procs :
        After(p, "Get") /\ gh[p].snap.ttl > 0
        /\ th[p].nowTime > gh[p].snap.exp - gh[p].snap.ttl
        /\ th[p].nowTime < gh[p].snap.exp
            => ServedFromCache(p, gh[p].snap.val)

\* C10: a Get(K, -1) that stored a loaded value caches it forever: a later
\* Get(K, -1) returns it without calling query again.
C10_ForeverTTL ==
    \A p \in Procs :
        After(p, "Get") /\ gh[p].snap.ttl = -1 /\ th[p].args = <<-1>>
            => ServedFromCache(p, gh[p].snap.val)

C6_FailureLeavesItem ==
    /\ [](\A p \in Gets :
            /\ Returning(p) /\ th[p].rerr = Error
                  => gh[p].loaded /\ expiration[th[p].item] <= th[p].nowTime
            /\ After(p, "Fail") /\ Returning(p) => gh[p].loaded)
    /\ [][\A p \in Procs :
            th[p].pc = "query" /\ th'[p].pc = "ret"
                => /\ th'[p].rerr = Error
                   /\ val'[th[p].item] = val[th[p].item]
                   /\ expiration'[th[p].item] = expiration[th[p].item]]_vars

\* the Get that follows a failed Get of the same key has called query again
C6_Witness == \E p \in Procs : After(p, "Fail") /\ Returning(p) /\ gh[p].loaded

\* C7 as first stated: whenever Get returns an error of query, the value returned
\* with it is the zero value of V, also when the item holds an earlier value.
C7_ErrorValueIsZero ==
    \A p \in Gets : Returning(p) /\ th[p].rerr = Error => th[p].rval = 0

\* C7: whenever Get returns an error of query, the value returned with it is the
\* val the item holds: zero for an item never written, the earlier value otherwise.
C7_ErrorValueIsStored ==
    \A p \in Gets : Returning(p) /\ th[p].rerr = Error => th[p].rval = val[th[p].item]

\* a Get returns an error together with an earlier, non-zero value
C7_Witness == \E p \in Gets : Returning(p) /\ th[p].rerr = Error /\ th[p].rval # 0

\* C8: Set called with an explicit ttl of exactly 0 changes nothing: no step of the
\* call touches c.items or any item's val or expiration, it takes no lock, creates
\* no item and never calls query.
ZeroSet(r) == r.op = "Set" /\ r.args = <<0>>
C8_ZeroTTLSetIsNoOp ==
    [][\A p \in Procs :
          th'[p] # th[p] /\ (ZeroSet(th[p]) \/ ZeroSet(th'[p]))
              => /\ items' = items /\ expiration' = expiration /\ val' = val
                 /\ mu' = mu /\ itemMu' = itemMu
                 /\ th'[p].item = NoItem
                 /\ th'[p].pc \in {"ret", "done"}]_vars

\* Set(K, V, 0) is returning while K is present and fresh with another value
C8_Witness ==
    \E p \in Procs :
        /\ ZeroSet(th[p]) /\ Returning(p)
        /\ items[th[p].key] # NoItem
        /\ expiration[items[th[p].key]] > clock
        /\ val[items[th[p].key]] # th[p].value

\* C9: if no further Get or Set is called, every item whose expiration passes is
\* eventually removed by the janitor: from any moment at which nobody is inside a
\* call and some item is due to expire, either a further call is made or a
\* moment comes at which every such item is gone from c.items (the items left, if
\* any, are those that do not expire within the run).
Quiet == \A p \in Procs : th[p].pc = "done"
Expiring(k) == items[k] # NoItem /\ expiration[items[k]] < MaxTime
C9_ExpiredEventuallyRemoved ==
    (Quiet /\ \E k \in Keys : Expiring(k)) ~> (~Quiet \/ \A k \in Keys : ~Expiring(k))

\* nobody is calling, and the map is empty again after cleanup has removed a
\* written, expired item of each key
C9_Witness == Quiet /\ Mapped = {} /\ \A k \in Keys : lastEv[k].kind = "Reaped"

\* C11: all operations are thread-safe: no goroutine reads item.val while a write
\* of it by another goroutine is not ordered before the read by a common lock or
\* an atomic, and c.items is accessed only with c.mu held.
C11_ThreadSafe ==
    /\ \A p \in Procs : ~gh[p].raced
    /\ \A p \in Procs : th[p].pc = "getItemBody" => mu = p
    /\ jpc = "scan" => mu = Janitor

\* C12: every goroutine inside Get or Set for key K holds the item that c.items
\* holds for K: no two items of one key are in use at once.
C12_OneItemPerKey ==
    \A p \in Procs : th[p].item # NoItem => items[th[p].key] = th[p].item

\* C13: c.mu is never held by a goroutine that is executing query: it is held
\* only inside getItem and cleanup.
C13_NoStructuralLockInLoader ==
    /\ \A p \in Procs : mu = p => th[p].pc = "getItemBody"
    /\ mu = Janitor => jpc = "scan"
    /\ \A p \in Procs : th[p].pc = "query" => mu # p

\* query is running for one goroutine while another one is inside getItem, or the
\* janitor inside cleanup, with c.mu held
C13_Witness == \E p \in Procs : th[p].pc = "query" /\ mu # Free

\* C14: every write of item.val or item.expiration is made with item.mu held by
\* the writer, and a Get that returns on the fast path returns the value of the
\* update whose expiration it observed or of a later update: one of the values
\* written, never a mix.
FastHit(p) == /\ p \in Gets /\ Returning(p) /\ th[p].rerr = Nil
              /\ ~gh[p].loaded /\ itemMu[th[p].item] # p
C14_NoTornRead ==
    /\ \A p \in Procs : th[p].pc \in {"setStoreExp", "getStoreExp", "query"}
                            => itemMu[th[p].item] = p
    /\ \A p \in Procs :
          FastHit(p) => /\ th[p].rval \in {gh[p].seen, val[th[p].item]}
                        /\ ~gh[p].raced => th[p].rval = gh[p].seen

\* C15: a key leaves c.items only in a step of cleanup and only when its
\* expiration is strictly below the clock; Get and Set remove nothing, and a step
\* of cleanup inserts nothing and leaves val and expiration of every item that
\* stays in c.items as they were.
C15_OnlyCleanupRemoves ==
    [][/\ \A k \in Keys :
             items[k] # NoItem /\ items'[k] # items[k]
                 => /\ items'[k] = NoItem
                    /\ mu = Janitor /\ jpc = "scan" /\ th' = th
                    /\ expiration[items[k]] < clock
       /\ jkeys' # jkeys
             => \A k \in Keys :
                    items'[k] # NoItem => /\ items'[k] = items[k]
                                          /\ val'[items'[k]] = val[items[k]]
                                          /\ expiration'[items'[k]] = expiration[items[k]]]_vars

\* a pass of cleanup has removed the written, expired item of one key and goes on
\* to a second key whose item has not expired
C15_Witness ==
    /\ jpc = "scan" /\ jkeys = {"b"}
    /\ items["a"] = NoItem /\ lastEv["a"].kind = "Reaped"
    /\ expiration[items["b"]] >= clock

\* C16 as first stated: once item.mu is taken on the slow path, Get returns the
\* cached value without calling query exactly when the expiration is strictly
\* greater than the clock at the moment of the second check.
C16_RecheckAgainstClock ==
    [][\A p \in Procs :
          th[p].pc = "getLock" /\ th'[p].pc # "getLock"
              => IF expiration[th[p].item] > clock
                 THEN /\ th'[p].pc = "ret" /\ ~gh'[p].loaded
                      /\ th'[p].rerr = Nil /\ th'[p].rval = val[th[p].item]
                 ELSE th'[p].pc = "query" /\ gh'[p].loaded]_vars

\* C16: once item.mu is taken on the slow path, Get returns the cached value
\* without calling query exactly when the expiration is strictly greater than
\* nowTime, the time the Get read before its first check; otherwise it calls query.
C16_RecheckAgainstNowTime ==
    [][\A p \in Procs :
          th[p].pc = "getLock" /\ th'[p].pc # "getLock"
              => IF expiration[th[p].item] > th[p].nowTime
                 THEN /\ th'[p].pc = "ret" /\ ~gh'[p].loaded
                      /\ th'[p].rerr = Nil /\ th'[p].rval = val[th[p].item]
                 ELSE th'[p].pc = "query" /\ gh'[p].loaded]_vars

\* a Get returns the cached value from the slow path although the expiration is
\* no longer ahead of the clock
C16_Witness ==
    \E p \in Gets :
        /\ Returning(p) /\ itemMu[th[p].item] = p /\ ~gh[p].loaded
        /\ expiration[th[p].item] > th[p].nowTime
        /\ expiration[th[p].item] <= clock

\* C17: a Get or Set runs to its end (or to its own call of query) while a call
\* of query for another key never returns, and a pass of cleanup runs to its end
\* whatever query is doing: only calls on the same key wait for a running query.
\* Whenever a call is in flight while query runs for another key, a moment comes
\* at which that call has returned or called query itself (or the other query
\* has returned after all).
OtherKeyLoading(p) ==
    \E q \in Procs \ {p} : th[q].pc = "query" /\ th[q].key # th[p].key
Waiting ==
    \E p \in Procs : InFlight(p) /\ th[p].pc # "query" /\ OtherKeyLoading(p)
C17_OtherKeysNotBlocked ==
    /\ Waiting ~> ~Waiting
    /\ (jpc = "scan") ~> (jpc = "wait")

\* a call on one key is about to return while query is running for another key
C17_Witness ==
    \E p \in Procs : Returning(p) /\ th[p].item # NoItem /\ OtherKeyLoading(p)

\* C18: a larger ttl never gives an earlier expiry: an item written with the
\* largest ttl there is never expires, it is fresh at every later time.
C18_LargestTTLNeverExpires ==
    \A k \in Keys :
        lastEv[k].kind \in {"Set", "Get"} /\ lastEv[k].ttl = MaxDuration
            => lastEv[k].exp > clock

\* C19: no goroutine holds c.mu and an item.mu at once, a call that has returned
\* holds no lock, and nothing deadlocks as long as query returns: a goroutine that
\* waits for a lock waits for a holder that can take a step.
Runnable(p) ==
    \/ th[p].pc \in {"getItemBody", "getNow", "getFast", "getFastRet", "query",
                      "getStoreExp", "setStoreExp", "ret"}
    \/ th[p].pc = "getItem" /\ mu = Free
    \/ th[p].pc \in {"getLock", "setLock"} /\ itemMu[th[p].item] = Free
C19_LocksReleased ==
    /\ \A p \in Procs : mu = p => \A i \in Items : itemMu[i] # p
    /\ \A p \in Procs : th[p].pc = "done" => mu # p /\ \A i \in Items : itemMu[i] # p
    /\ \A p \in Procs :
          InFlight(p) /\ ~Runnable(p)
              => \/ th[p].pc = "getItem" /\ (mu = Janitor \/ (mu \in Procs /\ Runnable(mu)))
                 \/ /\ th[p].pc \in {"getLock", "setLock"}
                    /\ itemMu[th[p].item] \in Procs /\ Runnable(itemMu[th[p].item])

\* every call has returned, one of them with the error of query and one after a
\* write, and every lock is free
C19_Witness ==
    /\ Quiet /\ calls = MaxCalls
    /\ \E k \in Keys : lastEv[k].kind = "Fail"
    /\ \E k \in Keys : lastEv[k].kind \in {"Set", "Get"}
    /\ mu = Free /\ \A i \in Items : itemMu[i] = Free

\* C20: whenever Get returns without error, the value it returns is one that a
\* Set of the key or a successful query of the key produced: never a value nobody
\* wrote, never the zero value of an item that was never written.
C20_ReturnedValueWasProduced ==
    \A p \in Gets :
        Returning(p) /\ th[p].rerr = Nil
            => /\ th[p].rval \in Values
               /\ itemMu[th[p].item] = p /\ ~gh[p].loaded => expiration[th[p].item] > 0

====
